---------------------------- MODULE Spec2Model ----------------------------
(***************************************************************************)
(* A model of two parts of cat-angular:                                    *)
(*                                                                         *)
(*   service/cat-select-config-service.js                                  *)
(*       the registry of named select configurations (provider.config)    *)
(*       and getConfig, which deep-merges caller options onto a shallow    *)
(*       copy of the registered configuration (assignDeep);               *)
(*   controller/cat-base-detail-controller.js                              *)
(*       the detail controller: breadcrumb / uiStack construction and the  *)
(*       view / edit / save life cycle with its promise callbacks.         *)
(*                                                                         *)
(* JavaScript objects are modelled on a heap of mutable objects, so that   *)
(* sharing between the registry, the options and returned results is       *)
(* visible.  Strings the code computes with (urls, endpoint names) are     *)
(* sequences of one-character strings.                                     *)
(***************************************************************************)
EXTENDS Integers, Sequences, FiniteSets, TLC

\* ------------------------------------------------------------------ bounds

\* Number of provider.config / getConfig calls in one run of the service.
MaxOps == 3

\* ------------------------------------------------------- JavaScript values

\* A value held in a variable or a property: undefined, a primitive (numbers
\* stand for all primitives) or a reference to a heap object.
Undefined == [t |-> "undef", v |-> 0]
NumV(n) == [t |-> "num", v |-> n]
RefV(a) == [t |-> "ref", v |-> a]

\* _.isUndefined
isUndefined(val) == val.t = "undef"

\* _.isObject: true of plain objects, arrays and functions, false of
\* primitives and undefined.
isObject(val) == val.t = "ref"

\* Literal values as a caller writes them down (trees, no sharing).  kind is
\* "undef", "num", "object", "array" or "function".
NoProps == [k \in {} |-> 0]
LUndef == [kind |-> "undef", v |-> 0, props |-> NoProps]
LNum(n) == [kind |-> "num", v |-> n, props |-> NoProps]
LObj(p) == [kind |-> "object", v |-> 0, props |-> p]
LArr(p) == [kind |-> "array", v |-> 0, props |-> p]
LFun == [kind |-> "function", v |-> 0, props |-> NoProps]

\* p with property k set to val (result[index] = ... in _.assign).
PutProp(p, k, val) == [j \in DOMAIN p \cup {k} |-> IF j = k THEN val ELSE p[j]]

\* Evaluating a literal: allocates its objects on heap h, children first.
\* Yields the grown heap and the value denoting the literal.
RECURSIVE Alloc(_, _), AllocProps(_, _, _, _)
Alloc(h, lit) ==
    IF lit.kind = "undef" THEN [heap |-> h, val |-> Undefined]
    ELSE IF lit.kind = "num" THEN [heap |-> h, val |-> NumV(lit.v)]
    ELSE LET r == AllocProps(h, lit.props, DOMAIN lit.props, NoProps)
         IN [heap |-> Append(r.heap, [kind |-> lit.kind, props |-> r.props]),
             val |-> RefV(Len(r.heap) + 1)]

AllocProps(h, lp, keys, acc) ==
    IF keys = {} THEN [heap |-> h, props |-> acc]
    ELSE LET k == CHOOSE j \in keys : TRUE
             c == Alloc(h, lp[k])
         IN AllocProps(c.heap, lp, keys \ {k}, PutProp(acc, k, c.val))

\* The deep value of val on heap h, as a literal: what _.isEqual /
\* angular.equals compare.
RECURSIVE Snap(_, _)
Snap(h, val) ==
    IF val.t = "undef" THEN LUndef
    ELSE IF val.t = "num" THEN LNum(val.v)
    ELSE [kind |-> h[val.v].kind, v |-> 0,
          props |-> [k \in DOMAIN h[val.v].props |-> Snap(h, h[val.v].props[k])]]

\* ------------------------------------------- cat-select-config-service.js

Names == {"country", "city"}

VARIABLES
    heap,        \* the JavaScript heap: a sequence of objects [kind, props]
    configs,     \* var configs = {}: name -> registered value (or undefined)
    registered,  \* name -> the literal most recently registered under it
    ops,         \* number of service calls made so far
    last,        \* what the most recent service call did
    prev,        \* the call before it
    results      \* the objects getConfig has returned so far, each with its
                 \* deep value at the time of the return: [ret, result]

svcVars == <<heap, configs, registered, ops, last, prev, results>>

VARIABLES
    config,       \* config: [endpoint, baseUrl, setParent]; endpoint is the
                  \* chain of endpoint names, endpoint[i + 1] the
                  \* parentEndpoint of endpoint[i]
    parents,      \* the injected parents array
    routeParams,  \* $routeParams: [id]; the empty string stands for no id
    ctor,         \* "new", "done", or "thrown" when the constructor threw
    detail,       \* $scope.detail
    editDetail,   \* $scope.editDetail
    fieldErrors,  \* $scope.$fieldErrors
    uiStack,      \* $scope.uiStack
    exists,       \* $scope.exists
    templates,    \* whether the template urls were put on the scope
    published,    \* what the $breadcrumbs service holds
    pending,      \* unsettled promises: [save, get, remove]
    effects,      \* calls made on collaborators: [broadcasts, paths,
                  \* historyBack, clearMessages, sets, gets, setArg]
    event,        \* the most recent call or callback: [type, response, data]
                  \* and trace, the types of all of them in order
    steps,        \* calls and callbacks after construction
    aliased       \* whether editDetail and detail are one and the same object

ctlVars == <<config, parents, routeParams, ctor, detail, editDetail, fieldErrors,
             uiStack, exists, templates, published, pending, effects, event, steps,
             aliased>>

vars == <<svcVars, ctlVars>>

\* _.clone(value): a new object with the same own properties, the nested
\* objects shared with the original; primitives and undefined as they are.
clone(h, val) ==
    IF isObject(val)
    THEN [heap |-> Append(h, h[val.v]), val |-> RefV(Len(h) + 1)]
    ELSE [heap |-> h, val |-> val]

\* assignDeep(target, source): _.assign with a customizer.  For every own
\* enumerable key of source, target[key] = customizer(target[key],
\* source[key]); the customizer recurses INTO the target's property when
\* both are objects (arrays and functions are objects to _.isObject).
\* t is the target's address, s the source value; yields the heap after.
RECURSIVE assignDeep(_, _, _), assignKeys(_, _, _, _), customizer(_, _, _)

\* The own key of an array's element i.
ArrayKey(i) == <<"0", "1", "2", "3", "4", "5", "6", "7", "8", "9">>[i + 1]

\* A customizer that, given two arrays, pushes the source's elements onto
\* the target array in place.
customizerPushing(h, targetProperty, sourceProperty) ==
    IF isObject(targetProperty) /\ isObject(sourceProperty)
    THEN IF h[targetProperty.v].kind = "array" /\ h[sourceProperty.v].kind = "array"
         THEN LET tp == h[targetProperty.v].props
                  sp == h[sourceProperty.v].props
                  n == Cardinality(DOMAIN tp)
                  pushed == {ArrayKey(n + i) : i \in 0 .. Cardinality(DOMAIN sp) - 1}
              IN [heap |-> [h EXCEPT ![targetProperty.v].props =
                      [k \in DOMAIN tp \cup pushed |->
                          IF k \in DOMAIN tp THEN tp[k]
                          ELSE sp[ArrayKey(CHOOSE i \in 0 .. 9 : ArrayKey(n + i) = k)]]],
                  val |-> targetProperty]
         ELSE [heap |-> assignDeep(h, targetProperty.v, sourceProperty),
               val |-> targetProperty]
    ELSE [heap |-> h, val |-> sourceProperty]

customizer(h, targetProperty, sourceProperty) ==
    IF isObject(targetProperty) /\ isObject(sourceProperty)
    THEN [heap |-> assignDeep(h, targetProperty.v, sourceProperty),
          val |-> targetProperty]
    ELSE [heap |-> h, val |-> sourceProperty]

assignKeys(h, t, s, keys) ==
    IF keys = {} THEN h
    ELSE LET k == CHOOSE j \in keys : TRUE
             targetProperty == IF k \in DOMAIN h[t].props
                               THEN h[t].props[k] ELSE Undefined
             r == customizer(h, targetProperty, h[s].props[k])
             h2 == [r.heap EXCEPT ![t].props = PutProp(@, k, r.val)]
         IN assignKeys(h2, t, s, keys \ {k})

assignDeep(h, t, s) ==
    IF isObject(s) THEN assignKeys(h, t, s.v, DOMAIN h[s.v].props) ELSE h

\* The object getConfig merges into: _.clone(config) || {}.
cloneOrEmpty(h, conf) ==
    IF isUndefined(conf)
    THEN [heap |-> Append(h, [kind |-> "object", props |-> NoProps]),
          val |-> RefV(Len(h) + 1)]
    ELSE clone(h, conf)

\* A getConfig that returns undefined as soon as either the config or the
\* options are undefined.
getConfigCallEitherUndefined(h, cfgs, name, options) ==
    LET conf == cfgs[name]
    IN IF isUndefined(conf) \/ isUndefined(options)
       THEN [heap |-> h, val |-> Undefined]
       ELSE LET c == cloneOrEmpty(h, conf)
            IN [heap |-> assignDeep(c.heap, c.val.v, options), val |-> c.val]

\* getConfig(name, options) on heap h with registry cfgs: the heap after
\* the call and the value returned.
getConfigCall(h, cfgs, name, options) ==
    LET conf == cfgs[name]
    IN IF isUndefined(conf) /\ isUndefined(options)
       THEN [heap |-> h, val |-> Undefined]
       ELSE LET c == cloneOrEmpty(h, conf)
            IN [heap |-> assignDeep(c.heap, c.val.v, options), val |-> c.val]

\* provider.config(name, config) on registry cfgs.
configCall(cfgs, name, conf) ==
    IF ~isUndefined(conf) THEN [cfgs EXCEPT ![name] = conf] ELSE cfgs

\* Configurations an application registers: mappings, nested up to three
\* levels, with scalar and array members.
RegisteredConfigs ==
    { LObj(NoProps),
      LObj("a" :> LObj(("x" :> LNum(0)) @@ ("y" :> LNum(2)))),
      LObj("a" :> LObj("x" :> LNum(1))),
      LObj(("a" :> LNum(1)) @@ ("b" :> LObj("x" :> LObj("y" :> LNum(0))))),
      LObj("a" :> LArr(("0" :> LNum(1)) @@ ("1" :> LNum(2)))) }

\* Options a caller passes: undefined or a mapping whose members are
\* scalars, arrays, functions or nested mappings.
OptionValues ==
    { LUndef,
      LObj(NoProps),
      LObj("a" :> LObj("x" :> LNum(1))),
      LObj("a" :> LArr(("0" :> LNum(1)) @@ ("1" :> LNum(2)))),
      LObj("a" :> LFun),
      LObj("a" :> LNum(2)),
      LObj("b" :> LObj("x" :> LObj(("x" :> LNum(0)) @@ ("y" :> LNum(1))))),
      LObj("a" :> LObj("y" :> LObj("x" :> LNum(1)))),
      LObj("b" :> LObj("x" :> LArr(("0" :> LNum(1)) @@ ("1" :> LNum(2))))) }

NoCall ==
    [op |-> "none", name |-> "", opt |-> Undefined, ret |-> Undefined,
     optBefore |-> LUndef, optAfter |-> LUndef,
     cfgBefore |-> LUndef, cfgAfter |-> LUndef, result |-> LUndef]

SvcInit ==
    /\ heap = <<>>
    /\ configs = [n \in Names |-> Undefined]
    /\ registered = [n \in Names |-> LUndef]
    /\ ops = 0
    /\ last = NoCall
    /\ prev = NoCall
    /\ results = <<>>

\* provider.config(name, config); config undefined is the getter form.
providerConfig(name, lit) ==
    /\ ops < MaxOps
    /\ LET a == Alloc(heap, lit)
       IN /\ heap' = a.heap
          /\ configs' = configCall(configs, name, a.val)
          /\ registered' = IF lit.kind = "undef" THEN registered
                           ELSE [registered EXCEPT ![name] = lit]
          /\ last' = [NoCall EXCEPT !.op = "config", !.name = name,
                                    !.ret = configCall(configs, name, a.val)[name]]
    /\ prev' = last
    /\ ops' = ops + 1
    /\ UNCHANGED results
    /\ UNCHANGED ctlVars

\* The bookkeeping of one getConfig(name, options) call made on heap h.
getConfigStep(h, name, options) ==
    LET r == getConfigCall(h, configs, name, options)
    IN /\ heap' = r.heap
       /\ last' = [op |-> "getConfig", name |-> name, opt |-> options,
                   ret |-> r.val,
                   optBefore |-> Snap(h, options),
                   optAfter |-> Snap(r.heap, options),
                   cfgBefore |-> Snap(h, configs[name]),
                   cfgAfter |-> Snap(r.heap, configs[name]),
                   result |-> Snap(r.heap, r.val)]
       /\ prev' = last
       /\ ops' = ops + 1
       /\ results' = IF isObject(r.val)
                     THEN Append(results, [ret |-> r.val,
                                           result |-> Snap(r.heap, r.val)])
                     ELSE results
       /\ UNCHANGED <<configs, registered>>
       /\ UNCHANGED ctlVars

\* service.getConfig(name, options) with options written down at the call.
getConfig(name, lit) ==
    /\ ops < MaxOps
    /\ LET a == Alloc(heap, lit) IN getConfigStep(a.heap, name, a.val)

\* service.getConfig(name, options) passing the options object of the
\* previous call once more.
getConfigAgain(name) ==
    /\ ops < MaxOps
    /\ last.op = "getConfig"
    /\ isObject(last.opt)
    /\ getConfigStep(heap, name, last.opt)

SvcNext ==
    \/ \E n \in Names, c \in RegisteredConfigs \cup {LUndef} : providerConfig(n, c)
    \/ \E n \in Names, o \in OptionValues : getConfig(n, o)
    \/ \E n \in Names : getConfigAgain(n)

\* ------------------------------------------ cat-base-detail-controller.js

\* Strings the controller computes with are sequences of characters.
LowerCase == <<"a", "b", "c", "d", "e", "f", "g", "h", "i", "j", "k", "l", "m",
               "n", "o", "p", "q", "r", "s", "t", "u", "v", "w", "x", "y", "z">>
UpperCase == <<"A", "B", "C", "D", "E", "F", "G", "H", "I", "J", "K", "L", "M",
               "N", "O", "P", "Q", "R", "S", "T", "U", "V", "W", "X", "Y", "Z">>

\* String.prototype.toUpperCase on one character.
toUpperCase(c) ==
    IF \E i \in DOMAIN LowerCase : LowerCase[i] = c
    THEN UpperCase[CHOOSE i \in DOMAIN LowerCase : LowerCase[i] = c]
    ELSE c

\* capitalize(string): charAt(0).toUpperCase() + substring(1).
capitalize(string) ==
    IF string = <<>> THEN <<>>
    ELSE <<toUpperCase(string[1])>> \o SubSeq(string, 2, Len(string))

\* path.split('/'): the segments between the slashes; one more than there
\* are slashes, so the empty string splits into one empty segment.
RECURSIVE split(_)
split(path) ==
    IF \A i \in DOMAIN path : path[i] # "/" THEN <<path>>
    ELSE LET i == CHOOSE j \in DOMAIN path :
                      path[j] = "/" /\ \A m \in 1 .. j - 1 : path[m] # "/"
         IN <<SubSeq(path, 1, i - 1)>> \o split(SubSeq(path, i + 1, Len(path)))

\* segments.join('/').
RECURSIVE join(_)
join(segments) ==
    IF segments = <<>> THEN <<>>
    ELSE IF Len(segments) = 1 THEN segments[1]
    ELSE segments[1] \o <<"/">> \o join(Tail(segments))

\* _.initial(array, amount): all but the last amount elements.
initial(array, amount) ==
    SubSeq(array, 1, IF Len(array) > amount THEN Len(array) - amount ELSE 0)

splitShiftAndJoin(path, amount) == join(initial(split(path), amount))

\* Deepest parent chain the breadcrumb inputs are drawn with.
MaxAncestors == 2

\* Most field errors one rejection carries.
MaxErrors == 2

\* Number of user calls and promise callbacks after construction.
MaxSteps == 4


\* Objects of the application: undefined, or a record of the members the
\* controller reads.  An empty id or name is a falsy one; an empty
\* breadcrumbTitle means the object has no such method.
NoObject == [def |-> FALSE, id |-> <<>>, name |-> <<>>, parent |-> <<>>,
             breadcrumbTitle |-> <<>>]
Object(id, name) == [def |-> TRUE, id |-> id, name |-> name, parent |-> <<>>,
                     breadcrumbTitle |-> <<>>]

\* A breadcrumb entry {title, url}; the terminal entry has no url.
Entry(title, url) == [title |-> title, url |-> url, hasUrl |-> TRUE]
TitleEntry(title) == [title |-> title, url |-> <<>>, hasUrl |-> FALSE]

\* $scope.$fieldErrors: undefined or a mapping field -> messages.
NoFieldErrors == [def |-> FALSE, map |-> NoProps]
FieldErrorMap(m) == [def |-> TRUE, map |-> m]

\* var parent = parents[count++]; ... title: parent.name: reading name of a
\* missing parent throws.  count is zero-based.
parentNameLenient(ps, count) ==
    IF count + 1 \in DOMAIN ps
    THEN [thrown |-> FALSE, name |-> ps[count + 1].name]
    ELSE [thrown |-> FALSE, name |-> <<>>]

parentName(ps, count) ==
    IF count + 1 \in DOMAIN ps
    THEN [thrown |-> FALSE, name |-> ps[count + 1].name]
    ELSE [thrown |-> TRUE, name |-> <<>>]

\* The while loop over the parent chain.  i is the position of
\* currentEndpoint in the chain, so count = i - 1.  Yields the uiStack and
\* the breadcrumbs built, or thrown with what was built before the throw.
RECURSIVE parentChainLoop(_, _, _, _, _, _)

\* A loop that appends its entries where the code prepends them.
parentChainLoopAppending(endpoint, i, ps, parentUrl, stack, crumbs) ==
    IF i >= Len(endpoint)
    THEN [thrown |-> FALSE, uiStack |-> stack, breadcrumbs |-> crumbs]
    ELSE LET parent == parentName(ps, i - 1)
             url1 == splitShiftAndJoin(parentUrl, 1)
             detailBreadcrumb ==
                 Entry(parent.name,
                       <<"#">> \o url1 \o <<"?", "t", "a", "b", "=">>
                            \o endpoint[i] \o <<"s">>)
             url2 == splitShiftAndJoin(url1, 1)
             breadcrumb == Entry(capitalize(endpoint[i + 1]) \o <<"s">>,
                                 <<"#">> \o url2)
         IN IF parent.thrown
            THEN [thrown |-> TRUE, uiStack |-> stack, breadcrumbs |-> crumbs]
            ELSE parentChainLoop(endpoint, i + 1, ps, url2,
                                 Append(stack, detailBreadcrumb),
                                 crumbs \o <<detailBreadcrumb, breadcrumb>>)

parentChainLoop(endpoint, i, ps, parentUrl, stack, crumbs) ==
    IF i >= Len(endpoint)
    THEN [thrown |-> FALSE, uiStack |-> stack, breadcrumbs |-> crumbs]
    ELSE LET parent == parentName(ps, i - 1)
             url1 == splitShiftAndJoin(parentUrl, 1)
             detailBreadcrumb ==
                 Entry(parent.name,
                       <<"#">> \o url1 \o <<"?", "t", "a", "b", "=">>
                            \o endpoint[i] \o <<"s">>)
             url2 == splitShiftAndJoin(url1, 1)
             breadcrumb == Entry(capitalize(endpoint[i + 1]) \o <<"s">>,
                                 <<"#">> \o url2)
         IN IF parent.thrown
            THEN [thrown |-> TRUE, uiStack |-> stack, breadcrumbs |-> crumbs]
            ELSE parentChainLoop(endpoint, i + 1, ps, url2,
                                 <<detailBreadcrumb>> \o stack,
                                 <<breadcrumb, detailBreadcrumb>> \o crumbs)

\* A construction that also emits the endpoint's own collection entry when
\* the endpoint has a parent.
buildBreadcrumbsWithOwn(cfg, ps, id) ==
    LET r == parentChainLoop(cfg.endpoint, 1, ps, cfg.baseUrl, <<>>, <<>>)
        own == Entry(capitalize(cfg.endpoint[1]) \o <<"s">>, <<"#">> \o cfg.baseUrl)
        terminal == TitleEntry(IF id = <<"n", "e", "w">> THEN <<"N", "e", "w">>
                               ELSE <<>>)
    IN [r EXCEPT !.breadcrumbs = IF r.thrown THEN @ ELSE @ \o <<own, terminal>>]

\* A construction whose terminal entry is titled 'New' whatever the route id.
buildBreadcrumbsAlwaysNew(cfg, ps, id) ==
    LET terminal == TitleEntry(<<"N", "e", "w">>)
    IN IF Len(cfg.endpoint) > 1
       THEN LET r == parentChainLoop(cfg.endpoint, 1, ps, cfg.baseUrl, <<>>, <<>>)
            IN [r EXCEPT !.breadcrumbs = IF r.thrown THEN @ ELSE Append(@, terminal)]
       ELSE [thrown |-> FALSE, uiStack |-> <<>>,
             breadcrumbs |->
                 <<Entry(capitalize(cfg.endpoint[1]) \o <<"s">>,
                         <<"#">> \o cfg.baseUrl),
                   terminal>>]

\* Lines 51-101: the uiStack and the breadcrumbs array handed to
\* $breadcrumbs.set, or thrown.
buildBreadcrumbs(cfg, ps, id) ==
    LET terminal == TitleEntry(IF id = <<"n", "e", "w">> THEN <<"N", "e", "w">>
                               ELSE <<>>)
    IN IF Len(cfg.endpoint) > 1
       THEN LET r == parentChainLoop(cfg.endpoint, 1, ps, cfg.baseUrl, <<>>, <<>>)
            IN [r EXCEPT !.breadcrumbs = IF r.thrown THEN @ ELSE Append(@, terminal)]
       ELSE [thrown |-> FALSE, uiStack |-> <<>>,
             breadcrumbs |->
                 <<Entry(capitalize(cfg.endpoint[1]) \o <<"s">>,
                         <<"#">> \o cfg.baseUrl),
                   terminal>>]

\* A title() that does not look for breadcrumbTitle.
titleNameOrId(data) ==
    IF ~data.def THEN <<>>
    ELSE IF data.name # <<>> THEN data.name
    ELSE data.id

\* $scope.title() of the object data.
title(data) ==
    IF ~data.def THEN <<>>
    ELSE IF data.breadcrumbTitle # <<>> THEN data.breadcrumbTitle
    ELSE IF data.name # <<>> THEN data.name
    ELSE data.id

\* $breadcrumbs.replaceLast(entry).
replaceLast(crumbs, entry) ==
    IF crumbs = <<>> THEN <<entry>>
    ELSE [crumbs EXCEPT ![Len(crumbs)] = entry]

\* update(): the last breadcrumb becomes the title of data.
update(crumbs, data) == replaceLast(crumbs, TitleEntry(title(data)))

\* An exists flag that takes every non-empty id, 'new' included, for the id
\* of an existing object.
existsForAnyId(id) == id # <<>>

\* $scope.exists.
existsFor(id) == id # <<>> /\ id # <<"n", "e", "w">>

\* setParent(parents[0]) on object o, when the Model has setParent.
withParent(o, cfg, ps) ==
    IF cfg.setParent
    THEN [o EXCEPT !.parent = IF ps = <<>> THEN <<>> ELSE ps[1].name]
    ELSE o

\* The rejection handler's "group by field": each error's message is pushed
\* onto the array of its field, the errors taken in order.
RECURSIVE groupByField(_, _)

\* A grouping that keeps only the latest message of a field.
groupByFieldOverwriting(errors, acc) ==
    IF errors = <<>> THEN acc
    ELSE groupByField(Tail(errors),
                      PutProp(acc, Head(errors).field, <<Head(errors).message>>))

groupByField(errors, acc) ==
    IF errors = <<>> THEN acc
    ELSE LET fieldError == Head(errors)
             sofar == IF fieldError.field \in DOMAIN acc
                      THEN acc[fieldError.field] ELSE <<>>
         IN groupByField(Tail(errors),
                         PutProp(acc, fieldError.field,
                                 Append(sofar, fieldError.message)))

NoResponse == [hasFieldErrors |-> FALSE, fieldErrors |-> <<>>]
NoEvent == [type |-> "none", response |-> NoResponse, data |-> NoObject,
            trace |-> <<>>]
Event(type) == [NoEvent EXCEPT !.type = type, !.trace = Append(event.trace, type)]

NoEffects == [broadcasts |-> <<>>, paths |-> <<>>, historyBack |-> 0,
              clearMessages |-> 0, sets |-> 0, gets |-> 0, setArg |-> <<>>]

\* A $broadcast: the event name and, for 'fieldErrors', its argument.
Broadcast(name, arg) == [name |-> name, arg |-> arg]

Id42 == <<"4", "2">>
Id43 == <<"4", "3">>
New == <<"n", "e", "w">>
Acme == <<"A", "c", "m", "e">>
Bolt == <<"B", "o", "l", "t">>

\* The endpoint names, the innermost first, and the parent objects handed to
\* the controller, parents[0] first.
EndpointNames ==
    << <<"w", "i", "d", "g", "e", "t">>, <<"g", "a", "d", "g", "e", "t">>,
       <<"s", "h", "o", "p">>, <<"m", "a", "l", "l">>, <<"c", "i", "t", "y">> >>
ParentObjects ==
    << [name |-> Acme], [name |-> Bolt], [name |-> <<"C", "o", "r", "e">>],
       [name |-> <<"D", "u", "n", "e">>], [name |-> <<"E", "c", "h", "o">>] >>

\* The ids of the parent objects, parents[0] first.
ParentIds == <<Id42, <<"7">>, <<"9">>, <<"3">>, <<"5">>>>

\* The collection url of the innermost endpoint of chain, each ancestor
\* contributing "/<name>s/<id>".
RECURSIVE CollectionUrl(_)
CollectionUrl(chain) ==
    IF Len(chain) = 1 THEN <<"/">> \o chain[1] \o <<"s">>
    ELSE CollectionUrl(Tail(chain)) \o <<"/">> \o ParentIds[1] \o <<"/">>
             \o chain[1] \o <<"s">>

\* Objects the endpoint resolves get and save with.
ServerObjects ==
    { Object(Id42, Acme),
      [Object(Id43, <<>>) EXCEPT !.breadcrumbTitle = Bolt],
      Object(Id43, <<>>) }

\* Names typed into the edit form.
FormNames == {Bolt}

\* The errors a server reports: two of one field, one of another.
FieldErrorValues ==
    { [field |-> "name", message |-> "required"],
      [field |-> "name", message |-> "invalid"],
      [field |-> "email", message |-> "required"] }

\* The responses save is rejected with: response.data with or without
\* fieldErrors.
Responses ==
    {NoResponse} \cup
    { [hasFieldErrors |-> TRUE, fieldErrors |-> es] :
          es \in UNION { [1 .. k -> FieldErrorValues] : k \in 0 .. MaxErrors } }

\* The scope before the constructor has run.
CtlBlank ==
    /\ ctor = "new"
    /\ editDetail = NoObject
    /\ fieldErrors = NoFieldErrors
    /\ uiStack = <<>>
    /\ exists = FALSE
    /\ templates = FALSE
    /\ published = <<>>
    /\ pending = [save |-> 0, get |-> 0, remove |-> 0]
    /\ effects = NoEffects
    /\ event = NoEvent
    /\ steps = 0
    /\ aliased = FALSE

\* The constructor function, up to the call of the custom controller.
Construct ==
    /\ ctor = "new"
    /\ LET r == buildBreadcrumbs(config, parents, routeParams.id)
           e == existsFor(routeParams.id)
       IN IF r.thrown
          THEN /\ ctor' = "thrown"
               /\ uiStack' = r.uiStack
               /\ fieldErrors' = FieldErrorMap(NoProps)
               /\ UNCHANGED <<editDetail, exists, templates, published, pending,
                              effects>>
          ELSE /\ ctor' = "done"
               /\ uiStack' = r.uiStack
               /\ fieldErrors' = FieldErrorMap(NoProps)
               /\ templates' = TRUE
               /\ exists' = e
               /\ published' = IF e /\ detail.def
                               THEN update(r.breadcrumbs, detail)
                               ELSE r.breadcrumbs
               /\ pending' = IF e /\ ~detail.def
                             THEN [pending EXCEPT !.get = @ + 1] ELSE pending
               /\ effects' = [effects EXCEPT
                                 !.sets = @ + 1,
                                 !.setArg = r.breadcrumbs,
                                 !.gets = IF e /\ ~detail.def THEN @ + 1 ELSE @]
               /\ editDetail' =
                      IF e THEN NoObject
                      ELSE IF ~detail.def
                           THEN withParent(Object(<<>>, <<>>), config, parents)
                           ELSE withParent(detail, config, parents)
    /\ event' = Event("construct")
    /\ UNCHANGED <<config, parents, routeParams, detail, steps, aliased>>
    /\ UNCHANGED svcVars

\* What every call and callback after construction shares.
Step ==
    /\ ctor = "done"
    /\ steps < MaxSteps
    /\ steps' = steps + 1
    /\ UNCHANGED <<config, parents, routeParams, ctor, uiStack, exists, templates>>
    /\ UNCHANGED svcVars

\* $scope.add().
add ==
    /\ Step
    /\ editDetail' = withParent(Object(<<>>, <<>>), config, parents)
    /\ aliased' = FALSE
    /\ event' = Event("add")
    /\ UNCHANGED <<detail, fieldErrors, published, pending, effects>>

\* An edit() that assigns detail itself where the code assigns
\* angular.copy(detail), so that setParent and the form write to detail.
editWithoutCopy ==
    /\ Step
    /\ editDetail' = IF detail.def THEN withParent(detail, config, parents)
                     ELSE NoObject
    /\ detail' = editDetail'
    /\ aliased' = detail.def
    /\ event' = Event("edit")
    /\ UNCHANGED <<fieldErrors, published, pending, effects>>

\* $scope.edit(): editDetail is angular.copy(detail), an object of its own;
\* with no detail the copy is undefined and reading its setParent throws
\* after the assignment.
edit ==
    /\ Step
    /\ editDetail' = IF detail.def THEN withParent(detail, config, parents)
                     ELSE NoObject
    /\ aliased' = FALSE
    /\ event' = Event("edit")
    /\ UNCHANGED <<detail, fieldErrors, published, pending, effects>>

\* The user changes the name in the edit form, which is bound to editDetail:
\* a write to the object editDetail refers to.
change(name) ==
    /\ Step
    /\ editDetail.def
    /\ editDetail' = [editDetail EXCEPT !.name = name]
    /\ detail' = IF aliased THEN [detail EXCEPT !.name = name] ELSE detail
    /\ event' = Event("change")
    /\ UNCHANGED <<fieldErrors, published, pending, effects, aliased>>

\* $scope.cancelEdit().
cancelEdit ==
    /\ Step
    /\ IF exists
       THEN /\ editDetail' = NoObject
            /\ aliased' = FALSE
            /\ fieldErrors' = NoFieldErrors
            /\ effects' = [effects EXCEPT
                              !.broadcasts = Append(@, Broadcast("formReset", NoFieldErrors)),
                              !.clearMessages = @ + 1]
       ELSE /\ effects' = [effects EXCEPT
                              !.broadcasts = Append(@, Broadcast("formReset", NoFieldErrors)),
                              !.historyBack = @ + 1]
            /\ UNCHANGED <<editDetail, fieldErrors, aliased>>
    /\ event' = Event("cancelEdit")
    /\ UNCHANGED <<detail, published, pending>>

\* $scope.remove(): endpoint.remove($scope.detail.id).
remove ==
    /\ Step
    /\ detail.def
    /\ pending' = [pending EXCEPT !.remove = @ + 1]
    /\ event' = Event("remove")
    /\ UNCHANGED <<detail, editDetail, fieldErrors, published, effects, aliased>>

\* The success callback of remove.
removeResolved ==
    /\ Step
    /\ pending.remove > 0
    /\ pending' = [pending EXCEPT !.remove = @ - 1]
    /\ effects' = [effects EXCEPT !.paths = Append(@, config.baseUrl)]
    /\ event' = Event("removeResolved")
    /\ UNCHANGED <<detail, editDetail, fieldErrors, published, aliased>>

\* $scope.reloadDetails(): endpoint.get($routeParams.id).
reload ==
    /\ Step
    /\ pending' = [pending EXCEPT !.get = @ + 1]
    /\ effects' = [effects EXCEPT !.gets = @ + 1]
    /\ event' = Event("reload")
    /\ UNCHANGED <<detail, editDetail, fieldErrors, published, aliased>>

\* The success callback of endpoint.get.
getResolved(data) ==
    /\ Step
    /\ pending.get > 0
    /\ pending' = [pending EXCEPT !.get = @ - 1]
    /\ detail' = data
    /\ aliased' = FALSE
    /\ published' = update(published, data)
    /\ event' = [Event("getResolved") EXCEPT !.data = data]
    /\ UNCHANGED <<editDetail, fieldErrors, effects>>

\* $scope.save(): endpoint.save($scope.editDetail).
save ==
    /\ Step
    /\ editDetail.def
    /\ pending' = [pending EXCEPT !.save = @ + 1]
    /\ event' = Event("save")
    /\ UNCHANGED <<detail, editDetail, fieldErrors, published, effects, aliased>>

\* A success callback that leaves the breadcrumbs as they are.
saveResolvedWithoutUpdate(data) ==
    /\ Step
    /\ pending.save > 0
    /\ pending' = [pending EXCEPT !.save = @ - 1]
    /\ fieldErrors' = NoFieldErrors
    /\ IF ~exists
       THEN /\ effects' = [effects EXCEPT
                              !.clearMessages = @ + 1,
                              !.broadcasts = Append(@, Broadcast("formReset", NoFieldErrors)),
                              !.paths = Append(@, config.baseUrl \o <<"/">> \o data.id)]
            /\ UNCHANGED <<detail, editDetail, published, aliased>>
       ELSE /\ effects' = [effects EXCEPT !.clearMessages = @ + 1]
            /\ editDetail' = NoObject
            /\ detail' = data
            /\ aliased' = FALSE
            /\ UNCHANGED published
    /\ event' = [Event("saveResolved") EXCEPT !.data = data]

\* The success callback of endpoint.save.
saveResolved(data) ==
    /\ Step
    /\ pending.save > 0
    /\ pending' = [pending EXCEPT !.save = @ - 1]
    /\ fieldErrors' = NoFieldErrors
    /\ IF ~exists
       THEN /\ effects' = [effects EXCEPT
                              !.clearMessages = @ + 1,
                              !.broadcasts = Append(@, Broadcast("formReset", NoFieldErrors)),
                              !.paths = Append(@, config.baseUrl \o <<"/">> \o data.id)]
            /\ UNCHANGED <<detail, editDetail, published, aliased>>
       ELSE /\ effects' = [effects EXCEPT !.clearMessages = @ + 1]
            /\ editDetail' = NoObject
            /\ detail' = data
            /\ aliased' = FALSE
            /\ published' = update(published, data)
    /\ event' = [Event("saveResolved") EXCEPT !.data = data]

\* A rejection callback that switches back to view mode.
saveRejectedLeavingEdit(response) ==
    /\ Step
    /\ pending.save > 0
    /\ pending' = [pending EXCEPT !.save = @ - 1]
    /\ editDetail' = NoObject
    /\ IF ~response.hasFieldErrors
       THEN /\ fieldErrors' = NoFieldErrors
            /\ UNCHANGED effects
       ELSE LET grouped == FieldErrorMap(groupByField(response.fieldErrors, NoProps))
            IN /\ fieldErrors' = grouped
               /\ effects' = [effects EXCEPT
                                 !.broadcasts = Append(@, Broadcast("fieldErrors", grouped))]
    /\ event' = [Event("saveRejected") EXCEPT !.response = response]
    /\ UNCHANGED <<detail, published, aliased>>

\* The rejection callback of endpoint.save.
saveRejected(response) ==
    /\ Step
    /\ pending.save > 0
    /\ pending' = [pending EXCEPT !.save = @ - 1]
    /\ IF ~response.hasFieldErrors
       THEN /\ fieldErrors' = NoFieldErrors
            /\ UNCHANGED effects
       ELSE LET grouped == FieldErrorMap(groupByField(response.fieldErrors, NoProps))
            IN /\ fieldErrors' = grouped
               /\ effects' = [effects EXCEPT
                                 !.broadcasts = Append(@, Broadcast("fieldErrors", grouped))]
    /\ event' = [Event("saveRejected") EXCEPT !.response = response]
    /\ UNCHANGED <<detail, editDetail, published, aliased>>

\* The breadcrumb inputs: every chain depth up to MaxAncestors, too few,
\* enough and too many parents, a base url that matches the chain, one with
\* a trailing slash and the empty one, every kind of route id.
BreadcrumbInputs ==
    /\ \E n \in 0 .. MaxAncestors, k \in 0 .. MaxAncestors + 1 :
          /\ k <= n + 1
          /\ \E url \in { CollectionUrl(SubSeq(EndpointNames, 1, n + 1)),
                          CollectionUrl(SubSeq(EndpointNames, 1, n + 1)) \o <<"/">>,
                          <<>> } :
                config = [endpoint |-> SubSeq(EndpointNames, 1, n + 1),
                          baseUrl |-> url, setParent |-> n > 0]
          /\ parents = SubSeq(ParentObjects, 1, k)
    /\ routeParams \in [id : {<<>>, New, Id42}]
    /\ detail \in {NoObject, Object(Id42, Acme)}
    /\ CtlBlank

\* The detail pages whose life cycle is explored: an endpoint without and
\* one with a parent, with the parents the chain needs.
DetailInputs ==
    /\ \E n \in 0 .. 1 :
          /\ config = [endpoint |-> SubSeq(EndpointNames, 1, n + 1),
                       baseUrl |-> CollectionUrl(SubSeq(EndpointNames, 1, n + 1)),
                       setParent |-> n > 0]
          /\ parents = SubSeq(ParentObjects, 1, n)
    /\ routeParams \in [id : {<<>>, New, Id42}]
    /\ detail \in {NoObject, Object(Id42, Acme)}
    /\ CtlBlank

\* The service while the controller is looked at, and the reverse.
SvcIdle == SvcInit
CtlIdle ==
    /\ config = [endpoint |-> SubSeq(EndpointNames, 1, 1),
                 baseUrl |-> <<>>, setParent |-> FALSE]
    /\ parents = <<>>
    /\ routeParams = [id |-> <<>>]
    /\ detail = NoObject
    /\ CtlBlank

CtlNext ==
    \/ Construct
    \/ add
    \/ edit
    \/ \E n \in FormNames : change(n)
    \/ cancelEdit
    \/ remove
    \/ removeResolved
    \/ reload
    \/ \E d \in ServerObjects : getResolved(d)
    \/ save
    \/ \E d \in ServerObjects : saveResolved(d)
    \/ \E r \in Responses : saveRejected(r)

\* The select config service on its own.
ConfigInit == SvcInit /\ CtlIdle
SpecConfig == ConfigInit /\ [][SvcNext]_vars

\* The constructor on every breadcrumb input.
BreadcrumbsInit == BreadcrumbInputs /\ SvcIdle
SpecBreadcrumbs == BreadcrumbsInit /\ [][Construct]_vars

\* The detail controller's life cycle.
DetailInit == DetailInputs /\ SvcIdle
SpecDetail == DetailInit /\ [][CtlNext]_vars

\* ------------------------------------------------ claims on the service

\* C1: getConfig(name, options) mutates neither the config stored under
\* name nor the options argument: both are deep-equal after the call to
\* what they were before it.
GetConfigMutatesNothing ==
    last.op = "getConfig" =>
        /\ last.cfgAfter = last.cfgBefore
        /\ last.optAfter = last.optBefore

\* C2: an options value that is an array or a function replaces the
\* existing value at its key outright, also when that value is a mapping.
ArrayOrFunctionReplaces ==
    (last.op = "getConfig" /\ last.optBefore.kind = "object") =>
        \A k \in DOMAIN last.optBefore.props :
            last.optBefore.props[k].kind \in {"array", "function"} =>
                /\ k \in DOMAIN last.result.props
                /\ last.result.props[k] = last.optBefore.props[k]

\* The deep value getConfig(name, {}) would return in the current state.
ResolveEmpty(name) ==
    LET a == Alloc(heap, LObj(NoProps))
        r == getConfigCall(a.heap, configs, name, a.val)
    IN Snap(r.heap, r.val)

\* C4: after any sequence of registrations and getConfig calls,
\* getConfig(name, {}) deep-equals the config as most recently registered
\* under name.
ResolveEmptyIsRegistered ==
    \A n \in Names :
        registered[n].kind # "undef" => ResolveEmpty(n) = registered[n]

\* r is the key-wise merge of the mappings c and o: the union of their keys,
\* keys only in c as in c, and on the keys of o the value of o, unless both
\* values are mappings, which merge by the same rule.
RECURSIVE MergedKeyWise(_, _, _)
MergedKeyWise(c, o, r) ==
    /\ r.kind = "object"
    /\ DOMAIN r.props = DOMAIN c.props \cup DOMAIN o.props
    /\ \A k \in DOMAIN c.props \ DOMAIN o.props : r.props[k] = c.props[k]
    /\ \A k \in DOMAIN o.props :
         IF k \in DOMAIN c.props /\ c.props[k].kind = "object"
                                 /\ o.props[k].kind = "object"
         THEN MergedKeyWise(c.props[k], o.props[k], r.props[k])
         ELSE r.props[k] = o.props[k]

\* C9: nested mappings merge key-wise at every depth: a key that holds a
\* mapping in both the stored config and the options holds their key-wise
\* merge in the result (options winning on shared keys), and top-level keys
\* absent from the options are preserved.
NestedMappingsMergeKeyWise ==
    (last.op = "getConfig" /\ last.cfgBefore.kind = "object"
                           /\ last.optBefore.kind = "object") =>
        /\ \A k \in DOMAIN last.cfgBefore.props \ DOMAIN last.optBefore.props :
               /\ k \in DOMAIN last.result.props
               /\ last.result.props[k] = last.cfgBefore.props[k]
        /\ \A k \in DOMAIN last.cfgBefore.props \cap DOMAIN last.optBefore.props :
               (/\ last.cfgBefore.props[k].kind = "object"
                /\ last.optBefore.props[k].kind = "object") =>
                   MergedKeyWise(last.cfgBefore.props[k], last.optBefore.props[k],
                                 last.result.props[k])

\* Two getConfig calls in a row with the same name and deep-equal options.
RepeatedCall ==
    /\ last.op = "getConfig"
    /\ prev.op = "getConfig"
    /\ last.name = prev.name
    /\ last.optBefore = prev.optBefore

\* C10: two getConfig calls in a row with the same name and the same
\* options, no registration in between, return deep-equal results.
RepeatedCallSameResult == RepeatedCall => last.result = prev.result

\* C10 witness: a repeated call whose first call merged options into a
\* registered config and changed the registry's nested objects on the way.
RepeatedCallWitness ==
    /\ RepeatedCall
    /\ prev.cfgBefore.kind = "object"
    /\ prev.optBefore.kind = "object"
    /\ prev.cfgAfter # prev.cfgBefore
    /\ last.result # last.optBefore

\* C12: getConfig returns undefined exactly when no config is registered
\* under name and options is undefined; when a config is registered or
\* options is defined it returns an object, and with nothing registered
\* that object is the merge of options onto an empty object, deep-equal to
\* options.
UndefinedOnlyWhenNothingKnown ==
    last.op = "getConfig" =>
        /\ isUndefined(last.ret) <=>
               (last.cfgBefore.kind = "undef" /\ last.optBefore.kind = "undef")
        /\ ~isUndefined(last.ret) =>
               (last.ret.t = "ref" /\ last.result.kind = "object")
        /\ (last.cfgBefore.kind = "undef" /\ last.optBefore.kind # "undef") =>
               last.result = last.optBefore

\* C12 witness: getConfig on a name nothing is registered under, with
\* options that have members, returned an object with those members.
NothingRegisteredOptionsGiven ==
    /\ last.op = "getConfig"
    /\ last.cfgBefore.kind = "undef"
    /\ last.optBefore.kind = "object"
    /\ DOMAIN last.optBefore.props # {}
    /\ last.ret.t = "ref"
    /\ last.result = last.optBefore

\* C16: an object getConfig has returned is not changed by any later
\* getConfig call: every earlier result is deep-equal to what it was when
\* it was returned.
EarlierResultsUnchanged ==
    \A i \in DOMAIN results : Snap(heap, results[i].ret) = results[i].result

\* --------------------------------------------- claims on the controller

\* url without its last path segment and the slash before it; the empty
\* string when url has no slash.
DropLastSegment(url) ==
    IF \A i \in DOMAIN url : url[i] # "/" THEN <<>>
    ELSE SubSeq(url, 1,
                (CHOOSE i \in DOMAIN url :
                     url[i] = "/" /\ \A j \in i + 1 .. Len(url) : url[j] # "/") - 1)

RECURSIVE DropSegments(_, _)
DropSegments(url, n) ==
    IF n = 0 THEN url ELSE DropSegments(DropLastSegment(url), n - 1)

Hash == <<"#">>
TabQuery == <<"?", "t", "a", "b", "=">>
Plural(name) == name \o <<"s">>

\* The collection entry of the k-th ancestor and the detail entry of the
\* k-th parent (k = 1 the immediate parent), as the spec describes them.
AncestorCollectionEntry(k) ==
    Entry(Plural(capitalize(config.endpoint[k + 1])),
          Hash \o DropSegments(config.baseUrl, 2 * k))
ParentDetailEntry(k) ==
    Entry(parents[k].name,
          Hash \o DropSegments(config.baseUrl, 2 * k - 1) \o TabQuery
               \o Plural(config.endpoint[k]))
OwnCollectionEntry ==
    Entry(Plural(capitalize(config.endpoint[1])), Hash \o config.baseUrl)

\* The constructor ran to its end on an endpoint with one ancestor level.
OneAncestorBuilt == ctor = "done" /\ Len(config.endpoint) = 2

\* C3 as stated: with one ancestor level the breadcrumbs are exactly 4
\* entries: the ancestor's collection, the parent's detail, the endpoint's
\* own collection and the url-less terminal entry; the uiStack has 1 entry.
OneAncestorFourBreadcrumbs ==
    OneAncestorBuilt =>
        /\ Len(published) = 4
        /\ published[1] = AncestorCollectionEntry(1)
        /\ published[2] = ParentDetailEntry(1)
        /\ published[3] = OwnCollectionEntry
        /\ ~published[4].hasUrl
        /\ Len(uiStack) = 1

\* C3 amended: with one ancestor level the breadcrumbs are exactly 3
\* entries, the ancestor's collection entry, the parent's detail entry (url
\* with ?tab=<child>s) and the url-less terminal entry; no entry for the
\* endpoint's own collection is emitted; the uiStack is the parent's detail
\* entry alone.
OneAncestorThreeBreadcrumbs ==
    OneAncestorBuilt =>
        /\ Len(published) = 3
        /\ published[1] = AncestorCollectionEntry(1)
        /\ published[2] = ParentDetailEntry(1)
        /\ ~published[3].hasUrl
        /\ \A i \in 1 .. 3 : published[i] # OwnCollectionEntry
        /\ uiStack = <<ParentDetailEntry(1)>>

\* C3 witness: the spec's scenario, widget under gadget "Acme" at
\* /gadgets/42/widgets, built.
OneAncestorScenario ==
    /\ OneAncestorBuilt
    /\ config.baseUrl = <<"/", "g", "a", "d", "g", "e", "t", "s", "/", "4", "2",
                          "/", "w", "i", "d", "g", "e", "t", "s">>
    /\ routeParams.id = <<>>
    /\ published =
         << Entry(<<"G", "a", "d", "g", "e", "t", "s">>,
                  <<"#", "/", "g", "a", "d", "g", "e", "t", "s">>),
            Entry(Acme,
                  <<"#", "/", "g", "a", "d", "g", "e", "t", "s", "/", "4", "2",
                    "?", "t", "a", "b", "=", "w", "i", "d", "g", "e", "t", "s">>),
            TitleEntry(<<>>) >>

\* The fieldErrors of a response that belong to field f, as messages in the
\* order of the response.
MessagesOf(errors, f) ==
    LET idx == {i \in DOMAIN errors : errors[i].field = f}
    IN [j \in 1 .. Cardinality(idx) |->
           errors[CHOOSE i \in idx : Cardinality({m \in idx : m <= i}) = j].message]

\* The most recent callback was a save rejection carrying fieldErrors.
RejectedWithFieldErrors ==
    event.type = "saveRejected" /\ event.response.hasFieldErrors

\* C5: when save is rejected with fieldErrors, $fieldErrors maps exactly the
\* reported fields, each to its messages in the order of the response, and
\* that mapping is broadcast as 'fieldErrors'.
FieldErrorsGroupedByField ==
    RejectedWithFieldErrors =>
        LET errors == event.response.fieldErrors
        IN /\ fieldErrors.def
           /\ DOMAIN fieldErrors.map = {errors[i].field : i \in DOMAIN errors}
           /\ \A f \in DOMAIN fieldErrors.map :
                  fieldErrors.map[f] = MessagesOf(errors, f)
           /\ effects.broadcasts # <<>>
           /\ effects.broadcasts[Len(effects.broadcasts)]
                  = Broadcast("fieldErrors", fieldErrors)

\* C5 witness: a rejection reporting two errors of one field has been
\* handled.
TwoErrorsOfOneField ==
    /\ RejectedWithFieldErrors
    /\ Len(event.response.fieldErrors) = 2
    /\ event.response.fieldErrors[1].field = event.response.fieldErrors[2].field
    /\ event.response.fieldErrors[1].message # event.response.fieldErrors[2].message
    /\ fieldErrors.def

\* C6: the rejection handler of save leaves editDetail, detail, the
\* location and the breadcrumbs as they are; without fieldErrors in the
\* rejection it clears $fieldErrors and broadcasts nothing.
RejectionKeepsEditMode ==
    [][(event'.type = "saveRejected" /\ steps' = steps + 1) =>
          /\ editDetail' = editDetail
          /\ detail' = detail
          /\ effects'.paths = effects.paths
          /\ effects'.historyBack = effects.historyBack
          /\ published' = published
          /\ ~event'.response.hasFieldErrors =>
                 (~fieldErrors'.def /\ effects'.broadcasts = effects.broadcasts)]_vars

\* C6 witness: after an earlier rejection had set field errors, a rejection
\* without fieldErrors was handled: the form is still in edit mode and
\* $fieldErrors is cleared.
RejectedWithoutFieldErrors ==
    /\ event.type = "saveRejected"
    /\ ~event.response.hasFieldErrors
    /\ editDetail.def
    /\ ~fieldErrors.def
    /\ \E i \in DOMAIN effects.broadcasts : effects.broadcasts[i].name = "fieldErrors"

\* C7: with N ancestor levels and N parents the uiStack has N entries,
\* root-first: the entry of parents[k] (k = 1 the immediate parent) is at
\* position N - k + 1, titled with the parent's name and linking to the
\* parent's detail page, baseUrl less its last 2k - 1 segments.
UiStackRootFirst ==
    (ctor = "done" /\ Len(parents) = Len(config.endpoint) - 1) =>
        LET N == Len(config.endpoint) - 1
        IN /\ Len(uiStack) = N
           /\ \A k \in 1 .. N : uiStack[N - k + 1] = ParentDetailEntry(k)

\* C7 witness: a chain of two ancestors built, the outermost parent first.
TwoAncestorsBuilt ==
    /\ ctor = "done"
    /\ Len(config.endpoint) = 3
    /\ Len(parents) = 2
    /\ Len(uiStack) = 2
    /\ uiStack[1].title = Bolt
    /\ uiStack[2].title = Acme

\* The parents array is shorter than the endpoint's parent chain.
MissingParentData == Len(parents) < Len(config.endpoint) - 1

\* C8: with fewer parents than chain levels the constructor throws:
\* $breadcrumbs.set is never called and nothing after the breadcrumb
\* construction runs (no templates, no reload, no add or edit).
MissingParentThrows ==
    (MissingParentData /\ ctor # "new") =>
        /\ ctor = "thrown"
        /\ effects.sets = 0
        /\ published = <<>>
        /\ ~templates
        /\ pending.get = 0
        /\ effects.gets = 0
        /\ ~editDetail.def

\* C8 witness: the constructor threw at the second level of a chain of two,
\* after the first level had been put on the uiStack.
ThrownAtSecondLevel ==
    /\ ctor = "thrown"
    /\ Len(config.endpoint) = 3
    /\ Len(parents) = 1
    /\ Len(uiStack) = 1

\* The constructor ran to its end on the endpoint "widget" without a parent.
NoParentBuilt == ctor = "done" /\ config.endpoint = << <<"w", "i", "d", "g", "e", "t">> >>

Called(type) == event'.trace = Append(event.trace, type)

\* The route names an existing object: an id that is not 'new'.
ExistingObject == routeParams.id # <<>> /\ routeParams.id # New

\* C13: editing works on a copy and cancelling discards the changes.  For
\* an existing object neither edit() nor a modification of editDetail
\* changes detail, and cancelEdit() leaves detail as it is, sets editDetail
\* to undefined, clears the global messages and $fieldErrors and performs
\* no history-back; for a new object cancelEdit() performs history-back and
\* leaves editDetail, detail and $fieldErrors unchanged.
CancelDiscardsChanges ==
    [][ /\ (ExistingObject /\ (Called("edit") \/ Called("change"))) =>
               detail' = detail
        /\ (ExistingObject /\ Called("cancelEdit")) =>
               /\ detail' = detail
               /\ ~editDetail'.def
               /\ ~fieldErrors'.def
               /\ effects'.clearMessages = effects.clearMessages + 1
               /\ effects'.historyBack = effects.historyBack
        /\ (~ExistingObject /\ Called("cancelEdit")) =>
               /\ effects'.historyBack = effects.historyBack + 1
               /\ editDetail' = editDetail
               /\ detail' = detail
               /\ fieldErrors' = fieldErrors ]_vars

\* C13 witness: an existing object was edited, renamed in the form and the
\* edit cancelled: detail is the object as it was loaded.
ExistingEditCancelled ==
    /\ ExistingObject
    /\ event.trace = <<"construct", "edit", "change", "cancelEdit">>
    /\ detail = Object(Id42, Acme)
    /\ ~editDetail.def
    /\ ~fieldErrors.def
    /\ effects.clearMessages = 1
    /\ effects.historyBack = 0

\* The title of an object as the breadcrumbs show it: breadcrumbTitle() if
\* the object has one, else its name if truthy, else its id; the empty
\* string for no object.
TitleOf(data) ==
    IF ~data.def THEN <<>>
    ELSE IF data.breadcrumbTitle # <<>> THEN data.breadcrumbTitle
    ELSE IF data.name # <<>> THEN data.name
    ELSE data.id

\* C14: upon a successful save the global messages and $fieldErrors are
\* cleared; for an existing object editDetail becomes undefined, detail
\* becomes the data the endpoint returned and the last breadcrumb is
\* replaced with that object's title; for a new object the controller
\* redirects to baseUrl + '/' + the returned id and broadcasts 'formReset'.
SaveSuccessShowsViewMode ==
    [][ Called("saveResolved") =>
          LET data == event'.data
              n == Len(published)
          IN /\ effects'.clearMessages = effects.clearMessages + 1
             /\ ~fieldErrors'.def
             /\ ExistingObject =>
                  /\ ~editDetail'.def
                  /\ detail' = data
                  /\ Len(published') = n
                  /\ published'[n] = [title |-> TitleOf(data), url |-> <<>>,
                                      hasUrl |-> FALSE]
                  /\ SubSeq(published', 1, n - 1) = SubSeq(published, 1, n - 1)
             /\ ~ExistingObject =>
                  /\ effects'.paths =
                       Append(effects.paths, config.baseUrl \o <<"/">> \o data.id)
                  /\ effects'.broadcasts =
                       Append(effects.broadcasts,
                              [name |-> "formReset", arg |-> NoFieldErrors]) ]_vars

\* C14 witness: an existing object was edited and saved, the endpoint
\* answered with an object that has a breadcrumbTitle, and the terminal
\* breadcrumb shows it.
ExistingSaved ==
    /\ ExistingObject
    /\ event.trace = <<"construct", "edit", "change", "save", "saveResolved">>
    /\ event.data.breadcrumbTitle = Bolt
    /\ detail = event.data
    /\ ~editDetail.def
    /\ published[Len(published)] = TitleEntry(Bolt)

\* C15: under every interleaving of save(), cancelEdit() and the
\* completions of pending saves, field errors are only present in edit
\* mode: in no reachable state is $fieldErrors a non-empty mapping while
\* editDetail is undefined.
FieldErrorsOnlyInEditMode ==
    ~(fieldErrors.def /\ DOMAIN fieldErrors.map # {} /\ ~editDetail.def)

\* C17: for an existing object, in every state the constructed controller
\* reaches, the published breadcrumbs have the length they were set with,
\* every entry but the last is the one that was set, and the terminal
\* entry's title is title() of the current detail: breadcrumbTitle() if
\* present, else the name if truthy, else the id, and the empty string
\* while detail is undefined.
TerminalBreadcrumbFollowsDetail ==
    (ExistingObject /\ ctor = "done") =>
        LET n == Len(effects.setArg)
        IN /\ Len(published) = n
           /\ \A i \in 1 .. n - 1 : published[i] = effects.setArg[i]
           /\ published[n] = [title |-> TitleOf(detail), url |-> <<>>,
                              hasUrl |-> FALSE]

\* C17 witness: an existing object under a parent was loaded, edited and
\* saved; the endpoint answered the save with an object that has neither
\* breadcrumbTitle nor name, and the terminal breadcrumb shows its id.
SavedObjectTitledById ==
    /\ ExistingObject
    /\ event.trace = <<"construct", "getResolved", "edit", "save", "saveResolved">>
    /\ detail = Object(Id43, <<>>)
    /\ Len(config.endpoint) = 2
    /\ Len(published) = 3
    /\ published[3] = TitleEntry(Id43)

\* C18: the route id and the supplied detail determine the initial mode.
\* With an id that is not 'new' the constructed controller is in view mode
\* (editDetail undefined) and has issued endpoint.get exactly once if
\* detail is undefined and not at all otherwise.  With no id or 'new' it is
\* in edit mode (editDetail a fresh Model if detail is undefined, otherwise
\* a copy of detail, each with the parent setParent gave it), has issued no
\* get, and the exists flag is false in every state, also after a
\* successful save.
InitialModeByRouteId ==
    /\ ~ExistingObject => ~exists
    /\ event.trace = <<"construct">> =>
         IF ExistingObject
         THEN /\ ~editDetail.def
              /\ detail.def => (effects.gets = 0 /\ pending.get = 0)
              /\ ~detail.def => (effects.gets = 1 /\ pending.get = 1)
         ELSE /\ editDetail.def
              /\ effects.gets = 0
              /\ pending.get = 0
              /\ editDetail.id = detail.id
              /\ editDetail.name = detail.name
              /\ editDetail.breadcrumbTitle = detail.breadcrumbTitle
              /\ editDetail.parent =
                     IF config.setParent /\ parents # <<>> THEN parents[1].name
                     ELSE detail.parent

\* C18 witness: a controller constructed for 'new' without a detail started
\* in edit mode, and after its save succeeded exists is still false.
NewObjectSaved ==
    /\ routeParams.id = New
    /\ event.trace = <<"construct", "change", "save", "saveResolved">>
    /\ ~exists
    /\ editDetail.def
    /\ ~detail.def
    /\ effects.gets = 0
    /\ effects.paths # <<>>

=============================================================================
